---- MODULE Spec2Model ----
(***************************************************************************)
(* Voice webchat: the /api/chat turn pipeline of nodejs/server.js and the  *)
(* recorder / chat-history client of nodejs/public/app.js.                 *)
(*                                                                         *)
(* Text is modelled as a sequence of one-character strings so that         *)
(* String.prototype.trim is computed, not assumed.                         *)
(***************************************************************************)
EXTENDS Integers, Sequences, FiniteSets, TLC

----------------------------------------------------------------------------
(* Bounds *)

MaxHist == 2     \* longest chatHistory array handed to normalizeChatHistory
MaxTurns == 2    \* requests the server handles concurrently
MaxRec == 2      \* startRecording calls (microphone requests) the client makes
MaxSends == 2    \* recordings the client stops and submits
MaxSelfStops == 1  \* encoders that stop without stop() having been called

----------------------------------------------------------------------------
(* Text *)

IsSpace(c) == c = " "

RECURSIVE SeqsUpTo(_, _)
SeqsUpTo(S, n) ==
  IF n = 0 THEN {<<>>}
  ELSE LET shorter == SeqsUpTo(S, n - 1)
       IN shorter \cup {Append(s, x) : s \in {q \in shorter : Len(q) = n - 1}, x \in S}

\* the texts a service answers with: empty, blank, bare, and padded on both sides
Texts == {<<>>, <<" ">>, <<"a">>, <<" ", "a", " ">>}

RECURSIVE TrimStart(_)
TrimStart(s) ==
  IF s = <<>> THEN <<>>
  ELSE IF IsSpace(Head(s)) THEN TrimStart(Tail(s)) ELSE s

RECURSIVE TrimEnd(_)
TrimEnd(s) ==
  IF s = <<>> THEN <<>>
  ELSE IF IsSpace(s[Len(s)]) THEN TrimEnd(SubSeq(s, 1, Len(s) - 1)) ELSE s

\* String.prototype.trim
Trim(s) == TrimEnd(TrimStart(s))

----------------------------------------------------------------------------
(* JavaScript values that reach normalizeChatHistory *)

Undef == [t |-> "undefined", v |-> <<>>]
Null == [t |-> "null", v |-> <<>>]
Str(s) == [t |-> "string", v |-> s]

\* the role property of an entry: a matching string, another string, or absent
RoleVals == {"user", "assistant", "system", "undefined"}
\* the strings an entry's content can be: empty, blank, bare, padded on both
\* sides, and with a space inside
EntryTexts == {<<>>, <<" ">>, <<"a">>, <<" ", "a", " ">>, <<"a", " ", "a">>}
ContentVals == {Undef, Null} \cup {Str(s) : s \in EntryTexts}

\* elements of a parsed array: objects {role, content, ...}, or non-objects
ObjEntries == {[t |-> "object", role |-> r, content |-> c] : r \in RoleVals, c \in ContentVals}
PrimEntries == {[t |-> "null", role |-> "undefined", content |-> Undef],
                [t |-> "string", role |-> "undefined", content |-> Undef]}
Entries == ObjEntries \cup PrimEntries

\* typeof entry === "object" holds for null too; the truthiness test removes it
IsObjectEntry(e) == e.t = "object"

\* server.js:112
RoleOf(e) ==
  IF e.role = "assistant" THEN "assistant"
  ELSE IF e.role = "user" THEN "user" ELSE "null"

\* the content of an entry taken without trimming
ContentOf_NoTrim(e) == IF e.content.t = "string" THEN e.content.v ELSE <<>>

\* server.js:113
ContentOf(e) == IF e.content.t = "string" THEN Trim(e.content.v) ELSE <<>>

RECURSIVE NormalizeEntries(_)
NormalizeEntries(arr) ==
  IF arr = <<>> THEN <<>>
  ELSE LET e == Head(arr)
           rest == NormalizeEntries(Tail(arr))
       IN IF IsObjectEntry(e) /\ RoleOf(e) # "null" /\ ContentOf(e) # <<>>
          THEN <<[role |-> RoleOf(e), content |-> ContentOf(e)]>> \o rest
          ELSE rest

\* A raw chatHistory field: absent, an empty string, a string (JSON text that
\* does or does not parse), or a value that is already an array or object.
\*   kind = "undefined" | "empty" | "text" | "array" | "object"
\*   parses: for kind "text", whether JSON.parse accepts it
\*   json:   for kind "text", the kind of value JSON.parse yields
\*   arr:    the array elements (kind "array", or "text" parsing to an array)
RawUndefined == [kind |-> "undefined", parses |-> FALSE, json |-> "none", arr |-> <<>>]
RawEmpty == [kind |-> "empty", parses |-> FALSE, json |-> "none", arr |-> <<>>]
RawBadText == [kind |-> "text", parses |-> FALSE, json |-> "none", arr |-> <<>>]
RawTextOf(jsonKind, arr) == [kind |-> "text", parses |-> TRUE, json |-> jsonKind, arr |-> arr]
RawArray(arr) == [kind |-> "array", parses |-> FALSE, json |-> "none", arr |-> arr]
RawObject == [kind |-> "object", parses |-> FALSE, json |-> "none", arr |-> <<>>]

\* JSON.stringify of an array of {role, content}
JSONStringifyHistory(arr) == RawTextOf("array", arr)

\* server.js:94-117
normalizeChatHistory(raw) ==
  IF raw.kind \in {"undefined", "empty"} THEN <<>>
  ELSE IF raw.kind = "text" /\ ~raw.parses THEN <<>>
  ELSE LET parsedIsArray == \/ raw.kind = "array"
                            \/ raw.kind = "text" /\ raw.json = "array"
       IN IF ~parsedIsArray THEN <<>> ELSE NormalizeEntries(raw.arr)

----------------------------------------------------------------------------
(* Server: state of the /api/chat handler (nodejs/server.js) *)

VARIABLES
  llmPostprompt,   \* config.llmPostprompt, fixed at process start
  turns,           \* one record per request the server has been sent
  refFiles,        \* the reference-voice files on disk: the audio and its transcript
  serverState,     \* the process: loading its module, listening, or exited
  referenceAudioBuffer,  \* const referenceAudioBuffer (server.js:38)
  referenceText    \* const referenceText (server.js:39)

Turns == 1..MaxTurns

\* error messages; status and body fill the template strings
Msg(kind, status, body) == [kind |-> kind, status |-> status, body |-> body]
NoMsg == Msg("none", 0, <<>>)
MissingAudioMsg == Msg("Missing recorded audio.", 0, <<>>)
EmptyReplyMsg == Msg("LLM response was empty.", 0, <<>>)
MissingAudioFieldMsg == Msg("TTS response missing audio_base64.", 0, <<>>)
FetchFailedMsg == Msg("fetch failed", 0, <<>>)
TypeErrorMsg == Msg("TypeError", 0, <<>>)
SyntaxErrorMsg == Msg("SyntaxError", 0, <<>>)

Audios == {"wavA", "wavB"}

\* what the transcription service can do with one request
\* what JSON.parse makes of a body: it throws, or yields null, an array, or an
\* object whose text property is absent, null or a string
NotJson == [t |-> "invalid", text |-> Undef]
JsonValues ==
  {[t |-> "null", text |-> Undef], [t |-> "array", text |-> Undef]}
  \cup {[t |-> "object", text |-> v] : v \in {Undef, Null} \cup {Str(c) : c \in Texts}}

\* the characters of a JSON body, with white space around it
JsonRaw(j) ==
  <<" ", "{">> \o (IF j.text.t = "string" THEN j.text.v ELSE <<>>) \o <<"}", " ">>

WhisperOutcomes ==
  {[kind |-> "throw", ok |-> FALSE, status |-> 0, raw |-> <<>>, json |-> NotJson]}
  \cup {[kind |-> "response", ok |-> TRUE, status |-> 200, raw |-> r, json |-> NotJson] :
          r \in Texts}
  \cup {[kind |-> "response", ok |-> FALSE, status |-> 503, raw |-> r, json |-> NotJson] :
          r \in {<<>>, <<"a">>}}

\* the same, and the bodies that are JSON
WhisperResponses ==
  WhisperOutcomes
  \cup {[kind |-> "response", ok |-> okay, status |-> IF okay THEN 200 ELSE 503,
          raw |-> JsonRaw(j), json |-> j] : okay \in BOOLEAN, j \in JsonValues}

\* what the completion service can do: the request rejects, or it resolves
\* with a completion whose first choice's content is reached or not
CompletionShapes == {"noChoices", "emptyChoices", "noMessage", "noContent",
                     "nullContent", "arrayContent", "content"}
LlmOutcomes ==
  {[kind |-> "throw", shape |-> "none", content |-> <<>>]}
  \cup {[kind |-> "completion", shape |-> sh, content |-> <<>>] :
          sh \in CompletionShapes \ {"content"}}
  \cup {[kind |-> "completion", shape |-> "content", content |-> c] : c \in Texts}

TtsShapes == {"badJson", "jsonNull", "noAudio", "emptyAudio", "audio"}
TtsOutcomes ==
  {[kind |-> "throw", ok |-> FALSE, status |-> 0, shape |-> "none", audio |-> "none"]}
  \cup {[kind |-> "response", ok |-> FALSE, status |-> 500, shape |-> "badJson", audio |-> "none"]}
  \cup {[kind |-> "response", ok |-> TRUE, status |-> 200, shape |-> sh, audio |-> "none"] :
          sh \in TtsShapes \ {"audio"}}
  \cup {[kind |-> "response", ok |-> TRUE, status |-> 200, shape |-> "audio", audio |-> a] :
          a \in Audios}

\* result of an async function: a value or a thrown Error
Ok(v) == [ok |-> TRUE, value |-> v, error |-> NoMsg]
Throw(m) == [ok |-> FALSE, value |-> <<>>, error |-> m]

responseFormat == "text"

\* server.js:73-91, the part of transcribeAudio after the fetch settles
transcribeAudio(o) ==
  IF o.kind = "throw" THEN Throw(FetchFailedMsg)
  ELSE IF ~o.ok THEN Throw(Msg("Whisper server error: ", o.status, o.raw))
  ELSE IF responseFormat = "text" THEN Ok(Trim(o.raw))
  ELSE IF o.json.t = "object" /\ o.json.text.t = "string" THEN Ok(Trim(o.json.text.v))
  ELSE Ok(Trim(o.raw))   \* JSON.parse threw, json.text threw, or text is no string

\* config.llmSystem and config.llmPreprompt: fixed, non-empty texts
llmSystem == <<"S">>
llmPreprompt == <<"P">>


\* the message list with the new transcript put before the prior history
BuildMessages_TranscriptFirst(transcript, chatHistory) ==
  <<[role |-> "system", content |-> llmSystem],
    [role |-> "user", content |-> llmPreprompt],
    [role |-> "user", content |-> transcript]>>
  \o [i \in 1..Len(chatHistory) |->
        [role |-> chatHistory[i].role, content |-> chatHistory[i].content]]
  \o (IF llmPostprompt # <<>> THEN <<[role |-> "user", content |-> llmPostprompt]>> ELSE <<>>)

\* server.js:120-132, the message list sent to the completion service
BuildMessages(transcript, chatHistory) ==
  <<[role |-> "system", content |-> llmSystem],
    [role |-> "user", content |-> llmPreprompt]>>
  \o [i \in 1..Len(chatHistory) |->
        [role |-> chatHistory[i].role, content |-> chatHistory[i].content]]
  \o <<[role |-> "user", content |-> transcript]>>
  \o (IF llmPostprompt # <<>> THEN <<[role |-> "user", content |-> llmPostprompt]>> ELSE <<>>)

\* generateAssistantReply testing the untrimmed content for emptiness
generateAssistantReply_NoTrim(o) ==
  IF o.kind = "throw" THEN Throw(Msg("LLM API error", 0, <<>>))
  ELSE IF o.shape = "noChoices" \/ o.shape = "emptyChoices" \/ o.shape = "noMessage"
          \/ o.shape = "noContent" \/ o.shape = "nullContent"
       THEN Throw(EmptyReplyMsg)
  ELSE IF o.shape = "arrayContent" THEN Throw(TypeErrorMsg)
  ELSE IF o.content = <<>> THEN Throw(EmptyReplyMsg)
  ELSE Ok(o.content)

\* server.js:140-144, the part of generateAssistantReply after create settles
generateAssistantReply(o) ==
  IF o.kind = "throw" THEN Throw(Msg("LLM API error", 0, <<>>))
  ELSE IF o.shape = "noChoices" \/ o.shape = "emptyChoices" \/ o.shape = "noMessage"
          \/ o.shape = "noContent" \/ o.shape = "nullContent"
       THEN Throw(EmptyReplyMsg)                \* reply is undefined
  ELSE IF o.shape = "arrayContent" THEN Throw(TypeErrorMsg)   \* content.trim is not a function
  ELSE IF Trim(o.content) = <<>> THEN Throw(EmptyReplyMsg)
  ELSE Ok(Trim(o.content))

\* server.js:161-170, the part of synthesizeSpeech after the fetch settles
synthesizeSpeech(o) ==
  IF o.kind = "throw" THEN Throw(FetchFailedMsg)
  ELSE IF ~o.ok THEN Throw(Msg("TTS server error: ", o.status, <<>>))
  ELSE IF o.shape = "badJson" THEN Throw(SyntaxErrorMsg)
  ELSE IF o.shape = "jsonNull" THEN Throw(TypeErrorMsg)
  ELSE IF o.shape \in {"noAudio", "emptyAudio"} THEN Throw(MissingAudioFieldMsg)
  ELSE Ok(o.audio)

\* an incoming POST /api/chat: whether multer found an "audio" file, whether
\* req.body was populated (a multipart request), and the raw chatHistory field
MixedHistory ==
  JSONStringifyHistory(<<[t |-> "object", role |-> "system", content |-> Str(<<"a">>)],
                         [t |-> "object", role |-> "assistant", content |-> Str(<<"a", " ">>)]>>)

Requests ==
  {[file |-> FALSE, audio |-> "none", body |-> FALSE, chatHistory |-> RawUndefined],
   [file |-> FALSE, audio |-> "none", body |-> TRUE, chatHistory |-> RawBadText],
   [file |-> TRUE, audio |-> "blob", body |-> TRUE, chatHistory |-> MixedHistory]}

NoResponse == [status |-> 0, error |-> NoMsg,
               transcript |-> <<>>, assistantReply |-> <<>>, audioBase64 |-> "none"]
ErrorResponse(status, m) == [NoResponse EXCEPT !.status = status, !.error = m]
SuccessResponse(transcript, reply, audio) ==
  [status |-> 200, error |-> NoMsg,
   transcript |-> transcript, assistantReply |-> reply, audioBase64 |-> audio]

Stages == {"whisper", "llm", "tts"}

NewTurn ==
  [pc |-> "new",
   req |-> [file |-> FALSE, audio |-> "none", body |-> FALSE, chatHistory |-> RawUndefined],
   chatHistory |-> <<>>,                      \* const chatHistory (server.js:178)
   transcript |-> <<>>,                       \* const transcript  (server.js:184)
   assistantReply |-> <<>>,                   \* const assistantReply (server.js:190)
   started |-> [s \in Stages |-> 0],          \* requests sent to each service
   settled |-> [s \in Stages |-> "none"],     \* how each stage function ended
   whisperIn |-> "none",                      \* audio sent to the transcription service
   llmIn |-> <<>>,                            \* messages sent to the completion service
   ttsIn |-> <<>>,                            \* syn_text sent to the synthesis service
   ttsRef |-> [audio |-> "none", text |-> <<>>],  \* ref_audio_base64, ref_text sent with it
   out |-> [s \in Stages |-> Ok(<<>>)],        \* what each stage function returned or threw
   logged |-> 0,                              \* console.error calls
   stalled |-> FALSE,                         \* the awaited service will never settle
   responses |-> <<>>]                        \* res.json calls, in order

\* server.js:203-208
CatchError(tr, m) ==
  [tr EXCEPT !.pc = "done",
             !.logged = @ + 1,
             !.responses = Append(@, ErrorResponse(500, m))]

\* the handler without its missing-audio check
HandleRequest_NoAudioCheck(tr, req) ==
  LET t0 == [tr EXCEPT !.req = req]
  IN IF ~req.body THEN CatchError(t0, TypeErrorMsg)
     ELSE [t0 EXCEPT !.chatHistory = normalizeChatHistory(req.chatHistory),
                     !.pc = "transcribing",
                     !.started["whisper"] = @ + 1,
                     !.whisperIn = req.audio]

\* server.js:174-189: the synchronous part of the handler, up to the first await
HandleRequest(tr, req) ==
  LET t0 == [tr EXCEPT !.req = req]
  IN IF ~req.body THEN CatchError(t0, TypeErrorMsg)   \* req.body.chatHistory of undefined
     ELSE LET t1 == [t0 EXCEPT !.chatHistory = normalizeChatHistory(req.chatHistory)]
          IN IF ~req.file
             THEN [t1 EXCEPT !.pc = "done",
                             !.responses = Append(@, ErrorResponse(400, MissingAudioMsg))]
             ELSE [t1 EXCEPT !.pc = "transcribing",
                             !.started["whisper"] = @ + 1,
                             !.whisperIn = req.audio]

\* the handler swallowing a transcription failure and going on with no transcript
AfterTranscribe_IgnoresFailure(tr, o) ==
  LET r == transcribeAudio(o)
      t1 == [tr EXCEPT !.out["whisper"] = r,
                       !.settled["whisper"] = IF r.ok THEN "ok" ELSE "fail"]
  IN [t1 EXCEPT !.transcript = r.value,
                !.pc = "completing",
                !.started["llm"] = @ + 1,
                !.llmIn = BuildMessages(r.value, tr.chatHistory)]

\* server.js:184-190: transcribeAudio settles; generateAssistantReply runs to its await
AfterTranscribe(tr, o) ==
  LET r == transcribeAudio(o)
      t1 == [tr EXCEPT !.out["whisper"] = r,
                       !.settled["whisper"] = IF r.ok THEN "ok" ELSE "fail"]
  IN IF ~r.ok THEN CatchError(t1, r.error)
     ELSE [t1 EXCEPT !.transcript = r.value,
                     !.pc = "completing",
                     !.started["llm"] = @ + 1,
                     !.llmIn = BuildMessages(r.value, tr.chatHistory)]

\* the handler reporting a completion failure but synthesizing all the same
AfterReply_SynthesizesAnyway(tr, o) ==
  LET r == generateAssistantReply(o)
      t1 == [tr EXCEPT !.out["llm"] = r,
                       !.settled["llm"] = IF r.ok THEN "ok" ELSE "fail"]
      t2 == IF r.ok THEN t1
            ELSE [t1 EXCEPT !.logged = @ + 1,
                            !.responses = Append(@, ErrorResponse(500, r.error))]
  IN [t2 EXCEPT !.assistantReply = r.value,
                !.pc = "synthesizing",
                !.started["tts"] = @ + 1,
                !.ttsIn = r.value,
                !.ttsRef = [audio |-> referenceAudioBuffer, text |-> referenceText]]

\* server.js:190-196: generateAssistantReply settles; synthesizeSpeech runs to its await
AfterReply(tr, o) ==
  LET r == generateAssistantReply(o)
      t1 == [tr EXCEPT !.out["llm"] = r,
                       !.settled["llm"] = IF r.ok THEN "ok" ELSE "fail"]
  IN IF ~r.ok THEN CatchError(t1, r.error)
     ELSE [t1 EXCEPT !.assistantReply = r.value,
                     !.pc = "synthesizing",
                     !.started["tts"] = @ + 1,
                     !.ttsIn = r.value,
                     !.ttsRef = [audio |-> referenceAudioBuffer, text |-> referenceText]]

\* the handler answering with transcript and reply exchanged
AfterSynthesize_SwapsFields(tr, o) ==
  LET r == synthesizeSpeech(o)
      t1 == [tr EXCEPT !.out["tts"] = r,
                       !.settled["tts"] = IF r.ok THEN "ok" ELSE "fail"]
  IN IF ~r.ok THEN CatchError(t1, r.error)
     ELSE [t1 EXCEPT !.pc = "done",
                     !.responses = Append(@, SuccessResponse(tr.assistantReply, tr.transcript, r.value))]

\* server.js:191-202: synthesizeSpeech settles; the success response is sent
AfterSynthesize(tr, o) ==
  LET r == synthesizeSpeech(o)
      t1 == [tr EXCEPT !.out["tts"] = r,
                       !.settled["tts"] = IF r.ok THEN "ok" ELSE "fail"]
  IN IF ~r.ok THEN CatchError(t1, r.error)
     ELSE [t1 EXCEPT !.pc = "done",
                     !.responses = Append(@, SuccessResponse(tr.transcript, tr.assistantReply, r.value))]

----------------------------------------------------------------------------
(* Client: state of nodejs/public/app.js *)

VARIABLES
  isRecording,     \* let isRecording
  mediaRecorder,   \* let mediaRecorder: 0 for undefined, else the encoder's id
  audioChunks,     \* let audioChunks: ids of the encoders whose fragment was pushed
  chatHistory,     \* const chatHistory
  status,          \* statusEl.textContent
  sessions,        \* per startRecording call: its microphone stream and encoder
  sends,           \* per encoder: the sendRecording call made with its blob
  selfStops,       \* encoders that have stopped without stop() being called
  op               \* the handler that ran last, and what it did

----------------------------------------------------------------------------
(* normalizeChatHistory applied to arbitrary input *)

VARIABLES
  normIn,          \* the raw value handed to normalizeChatHistory
  normOut,         \* its return value, once called
  transcribeCall   \* one call of transcribeAudio: arguments, form sent, response, result

procVars == <<refFiles, serverState, referenceAudioBuffer, referenceText>>
serverVars == <<llmPostprompt, turns, refFiles, serverState, referenceAudioBuffer, referenceText>>
clientVars == <<isRecording, mediaRecorder, audioChunks, chatHistory, status, sessions, sends,
                selfStops, op>>
normVars == <<normIn, normOut, transcribeCall>>
vars == <<llmPostprompt, turns, refFiles, serverState, referenceAudioBuffer, referenceText,
          isRecording, mediaRecorder, audioChunks, chatHistory,
          status, sessions, sends, selfStops, op, normIn, normOut, transcribeCall>>

----------------------------------------------------------------------------
(* Client: helpers of nodejs/public/app.js *)

Recs == 1..MaxRec

StatusMsg(text) == Msg(text, 0, <<>>)
RequestingMsg == StatusMsg("Requesting microphone access...")
ListeningMsg == StatusMsg("Listening...")
FinalizingMsg == StatusMsg("Finalizing recording...")
UploadingMsg == StatusMsg("Uploading audio...")
TranscribingMsg == StatusMsg("Transcribing audio and generating reply...")
SynthesizingMsg == StatusMsg("Synthesizing speech...")
ReadyMsg == StatusMsg("Ready.")
RequestFailedMsg == StatusMsg("Request failed.")
FailedToFetchMsg == StatusMsg("Failed to fetch")
EncoderErrorMsg == StatusMsg("NotSupportedError")

\* names of the errors getUserMedia rejects with
MicErrorNames == {"NotAllowedError", "NotFoundError", "NotReadableError",
                  "SecurityError", "AbortError"}

\* app.js:134-151
formatMicError(name) ==
  IF name = "NotAllowedError"
  THEN StatusMsg("Microphone access was blocked. Allow it in the browser permissions.")
  ELSE IF name = "NotFoundError"
  THEN StatusMsg("No microphone was found. Check your audio input.")
  ELSE IF name = "NotReadableError"
  THEN StatusMsg("The microphone is in use by another application.")
  ELSE IF name = "SecurityError"
  THEN StatusMsg("Microphone access requires HTTPS or localhost.")
  ELSE StatusMsg("Failed to access microphone.")

NoSession == [start |-> "none", stream |-> "none", encoder |-> "none",
              events |-> "none", stopWaiter |-> FALSE]

\* a sendRecording call: where it is, the request it posted while the fetch is
\* pending (history payload, audio blob), the response while its body is read
NoSend == [pc |-> "none", payload |-> <<>>, blob |-> <<>>,
           parsable |-> FALSE, response |-> NoResponse,
           calls |-> [s \in Stages |-> 0]]   \* requests the server made to answer it

\* the handler that ran last: its name, the session or send it ran for, the
\* error it caught (NoMsg when it caught none)
Op(name, id, err) == [name |-> name, id |-> id, err |-> err]

\* app.js:105-111
appendChatMessage(h, role, content, audioBase64) ==
  IF content = <<>> THEN h
  ELSE Append(h, [role |-> role, content |-> content, audioBase64 |-> audioBase64])

\* app.js:239-251: the history after a parsed 2xx response
AppendTurn(h, data) ==
  LET h1 == IF data.transcript # <<>>
            THEN appendChatMessage(h, "user", data.transcript, "none") ELSE h
  IN IF data.assistantReply # <<>>
     THEN appendChatMessage(h1, "assistant", data.assistantReply, data.audioBase64)
     ELSE h1

\* app.js:223-224: chatHistory.map(({role, content}) => ...) then JSON.stringify
ChatHistoryPayload(h) ==
  [i \in 1..Len(h) |-> [t |-> "object", role |-> h[i].role, content |-> Str(h[i].content)]]

\* the request sendRecording posts to /api/chat
ClientRequest(payload) ==
  [file |-> TRUE, audio |-> "blob", body |-> TRUE,
   chatHistory |-> JSONStringifyHistory(payload)]

\* service behaviours the client's turns are run against
ClientWhisperOutcomes ==
  {o \in WhisperOutcomes : o.kind = "response" /\ o.ok /\ o.raw \in {<<>>, <<"a">>}}
ClientLlmOutcomes ==
  {o \in LlmOutcomes : o.shape = "content" /\ o.content \in {<<>>, <<"a">>}}
ClientTtsOutcomes ==
  {o \in TtsOutcomes : o.kind = "response" /\ o.audio = "wavA"}

\* server.js:173-209 run from request to response against given service behaviours
ServedTurn(req, wo, lo, to) ==
  LET t1 == HandleRequest(NewTurn, req)
      t2 == IF t1.pc = "transcribing" THEN AfterTranscribe(t1, wo) ELSE t1
      t3 == IF t2.pc = "completing" THEN AfterReply(t2, lo) ELSE t2
      t4 == IF t3.pc = "synthesizing" THEN AfterSynthesize(t3, to) ELSE t3
  IN t4

ServeTurn(req, wo, lo, to) == ServedTurn(req, wo, lo, to).responses[1]

ServedTurns(req) ==
  {ServedTurn(req, wo, lo, to) :
     wo \in ClientWhisperOutcomes, lo \in ClientLlmOutcomes, to \in ClientTtsOutcomes}

ServerResponses(req) ==
  {ServeTurn(req, wo, lo, to) :
     wo \in ClientWhisperOutcomes, lo \in ClientLlmOutcomes, to \in ClientTtsOutcomes}

----------------------------------------------------------------------------
(* Server actions *)

\* what a file on disk can be: absent, or present with its content
AudioFiles == {"missing", "empty", "refWav"}
TextFiles == {[exists |-> FALSE, content |-> <<>>]}
             \cup {[exists |-> TRUE, content |-> c] : c \in Texts}
GoodFiles == [audio |-> "refWav", text |-> [exists |-> TRUE, content |-> <<"a">>]]

\* server.js:32-42, 211-214: the module is loaded. readFileSync throws for an
\* absent file, the transcript is trimmed and an empty one throws; an uncaught
\* throw ends the process, otherwise it goes on to app.listen
StartServer ==
  /\ serverState = "loading"
  /\ IF refFiles.audio = "missing" \/ ~refFiles.text.exists
     THEN /\ serverState' = "exited"
          /\ UNCHANGED <<referenceAudioBuffer, referenceText>>
     ELSE /\ referenceAudioBuffer' = refFiles.audio
          /\ referenceText' = Trim(refFiles.text.content)
          /\ serverState' = IF referenceText' = <<>> THEN "exited" ELSE "listening"
  /\ UNCHANGED <<llmPostprompt, turns, refFiles, clientVars, normVars>>

\* POST /api/chat arrives (server.js:173)
ChatRequest(t, req) ==
  /\ serverState = "listening"
  /\ turns[t].pc = "new"
  /\ \A u \in Turns : u < t => turns[u].pc # "new"
  /\ turns' = [turns EXCEPT ![t] = HandleRequest(@, req)]
  /\ UNCHANGED <<llmPostprompt, procVars, clientVars, normVars>>

\* the transcription service answers, or the connection fails (server.js:68)
WhisperSettles(t, o) ==
  /\ turns[t].pc = "transcribing"
  /\ ~turns[t].stalled
  /\ turns' = [turns EXCEPT ![t] = AfterTranscribe(@, o)]
  /\ UNCHANGED <<llmPostprompt, procVars, clientVars, normVars>>


\* the handler keeping the normalized history in a variable of the module,
\* which every turn in flight then reads
LlmSettles_SharedHistory(t, o) ==
  /\ turns[t].pc = "completing"
  /\ ~turns[t].stalled
  /\ turns' = [u \in Turns |->
                IF u = t THEN AfterReply(turns[t], o)
                ELSE [turns[u] EXCEPT !.chatHistory = turns[t].chatHistory]]
  /\ UNCHANGED <<llmPostprompt, procVars, clientVars, normVars>>

\* the completion service answers, or the call rejects (server.js:134)
LlmSettles(t, o) ==
  /\ turns[t].pc = "completing"
  /\ ~turns[t].stalled
  /\ turns' = [turns EXCEPT ![t] = AfterReply(@, o)]
  /\ UNCHANGED <<llmPostprompt, procVars, clientVars, normVars>>

\* the synthesis service answers, or the connection fails (server.js:155)
TtsSettles(t, o) ==
  /\ turns[t].pc = "synthesizing"
  /\ ~turns[t].stalled
  /\ turns' = [turns EXCEPT ![t] = AfterSynthesize(@, o)]
  /\ UNCHANGED <<llmPostprompt, procVars, clientVars, normVars>>

\* server.js:68-71, 134-138, 155-159: the awaited request is sent with no
\* timeout and no abort signal, and the service it went to never answers
ServiceStalls(t) ==
  /\ turns[t].pc \in {"transcribing", "completing", "synthesizing"}
  /\ ~turns[t].stalled
  /\ turns' = [turns EXCEPT ![t].stalled = TRUE]
  /\ UNCHANGED <<llmPostprompt, procVars, clientVars, normVars>>

----------------------------------------------------------------------------
(* Client actions *)

FreeSession(i) ==
  /\ sessions[i].start = "none"
  /\ \A j \in Recs : j < i => sessions[j].start # "none"

\* startRecording without its isRecording test
startRecording_NoGuard ==
  \E i \in Recs :
    /\ FreeSession(i)
    /\ status' = RequestingMsg
    /\ sessions' = [sessions EXCEPT ![i].start = "awaitMedia", ![i].stream = "pending"]
    /\ op' = Op("startRecording", i, NoMsg)
    /\ UNCHANGED <<isRecording, mediaRecorder, audioChunks, chatHistory, sends>>

\* app.js:161-168: startRecording up to its await
startRecording ==
  IF isRecording
  THEN /\ op' = Op("startRecording", 0, NoMsg)
       /\ UNCHANGED <<isRecording, mediaRecorder, audioChunks, chatHistory, status,
                      sessions, sends>>
  ELSE \E i \in Recs :
         /\ FreeSession(i)
         /\ status' = RequestingMsg
         /\ sessions' = [sessions EXCEPT ![i].start = "awaitMedia", ![i].stream = "pending"]
         /\ op' = Op("startRecording", i, NoMsg)
         /\ UNCHANGED <<isRecording, mediaRecorder, audioChunks, chatHistory, sends>>

\* app.js:193-208: stopRecording up to its await
stopRecording ==
  IF mediaRecorder = 0 \/ sessions[mediaRecorder].encoder = "inactive"
  THEN /\ op' = Op("stopRecording", 0, NoMsg)
       /\ UNCHANGED <<isRecording, mediaRecorder, audioChunks, chatHistory, status,
                      sessions, sends>>
  ELSE /\ Cardinality({i \in Recs : sessions[i].stopWaiter \/ sends[i].pc # "none"}) < MaxSends
       /\ status' = FinalizingMsg
       /\ sessions' = [sessions EXCEPT ![mediaRecorder].stopWaiter = TRUE,
                                       ![mediaRecorder].encoder = "inactive",
                                       ![mediaRecorder].events = "queued"]
       /\ op' = Op("stopRecording", mediaRecorder, NoMsg)
       /\ UNCHANGED <<isRecording, mediaRecorder, audioChunks, chatHistory, sends>>

\* app.js:260-268: the record button is clicked
ClickRecord ==
  /\ IF isRecording THEN stopRecording ELSE startRecording
  /\ UNCHANGED <<selfStops, serverVars, normVars>>

\* startRecording invoked by name, whatever the recorder's state
CallStartRecording ==
  /\ startRecording
  /\ UNCHANGED <<selfStops, serverVars, normVars>>

\* app.js:168-171: getUserMedia rejects; the click handler's catch shows the message
MediaDenied(i, name) ==
  /\ sessions[i].start = "awaitMedia"
  /\ sessions' = [sessions EXCEPT ![i].start = "failed", ![i].stream = "denied"]
  /\ status' = formatMicError(name)
  /\ op' = Op("mediaDenied", i, formatMicError(name))
  /\ UNCHANGED <<selfStops, isRecording, mediaRecorder, audioChunks, chatHistory, sends,
                 serverVars, normVars>>

\* app.js:168-190: getUserMedia resolves; the encoder is built and started
\*   how = "ok" | "ctorThrows" (new MediaRecorder throws) | "startThrows"
MediaGranted(i, how) ==
  /\ sessions[i].start = "awaitMedia"
  /\ CASE how = "ok" ->
            /\ mediaRecorder' = i
            /\ audioChunks' = <<>>
            /\ isRecording' = TRUE
            /\ status' = ListeningMsg
            /\ sessions' = [sessions EXCEPT ![i].start = "done", ![i].stream = "live",
                                            ![i].encoder = "recording"]
            /\ op' = Op("mediaGranted", i, NoMsg)
       [] how = "ctorThrows" ->
            /\ sessions' = [sessions EXCEPT ![i].start = "failed", ![i].stream = "live"]
            /\ status' = EncoderErrorMsg
            /\ op' = Op("mediaGranted", i, EncoderErrorMsg)
            /\ UNCHANGED <<mediaRecorder, audioChunks, isRecording>>
       [] how = "startThrows" ->
            /\ mediaRecorder' = i
            /\ audioChunks' = <<>>
            /\ sessions' = [sessions EXCEPT ![i].start = "failed", ![i].stream = "live",
                                            ![i].encoder = "inactive"]
            /\ status' = EncoderErrorMsg
            /\ op' = Op("mediaGranted", i, EncoderErrorMsg)
            /\ UNCHANGED isRecording
  /\ UNCHANGED <<selfStops, chatHistory, sends, serverVars, normVars>>

\* the encoder stops without stop() having been called (its tracks ended)
EncoderStopsItself(i) ==
  /\ sessions[i].encoder = "recording"
  /\ selfStops < MaxSelfStops
  /\ selfStops' = selfStops + 1
  /\ sessions' = [sessions EXCEPT ![i].encoder = "inactive", ![i].events = "queued"]
  /\ op' = Op("encoderStopsItself", i, NoMsg)
  /\ UNCHANGED <<isRecording, mediaRecorder, audioChunks, chatHistory, status, sends,
                 serverVars, normVars>>

\* app.js:177-181: ondataavailable keeps a fragment that is not empty
PushChunk(chunks, i, size) == IF size > 0 THEN Append(chunks, i) ELSE chunks

\* stopRecording building the blob when it calls stop(), before the encoder has
\* raised dataavailable and stop
StopEvent_BlobBeforeStop(i, size) ==
  /\ sessions[i].events = "queued"
  /\ audioChunks' = PushChunk(audioChunks, i, size)
  /\ sessions' = [sessions EXCEPT ![i].events = "done", ![i].stream = "stopped",
                                  ![i].stopWaiter = FALSE]
  /\ IF sessions[i].stopWaiter
     THEN /\ isRecording' = FALSE
          /\ sends' = [sends EXCEPT ![i] = [NoSend EXCEPT !.pc = "fetching",
                                              !.payload = ChatHistoryPayload(chatHistory),
                                              !.blob = audioChunks]]
          /\ status' = UploadingMsg
     ELSE UNCHANGED <<isRecording, sends, status>>
  /\ op' = Op("stopEvent", i, NoMsg)
  /\ UNCHANGED <<selfStops, mediaRecorder, chatHistory, serverVars, normVars>>

\* stopRecording clearing isRecording only after sendRecording has returned
StopEvent_IdleAfterSend(i, size) ==
  /\ sessions[i].events = "queued"
  /\ audioChunks' = PushChunk(audioChunks, i, size)
  /\ sessions' = [sessions EXCEPT ![i].events = "done", ![i].stream = "stopped",
                                  ![i].stopWaiter = FALSE]
  /\ IF sessions[i].stopWaiter
     THEN /\ sends' = [sends EXCEPT ![i] = [NoSend EXCEPT !.pc = "fetching",
                                              !.payload = ChatHistoryPayload(chatHistory),
                                              !.blob = audioChunks']]
          /\ status' = UploadingMsg
     ELSE UNCHANGED <<sends, status>>
  /\ op' = Op("stopEvent", i, NoMsg)
  /\ UNCHANGED <<selfStops, isRecording, mediaRecorder, chatHistory, serverVars, normVars>>

\* app.js:177-185, 199-202, 210-231: the task a stopped encoder queues. It fires
\* dataavailable (a fragment of the given size) and then stop: onstop releases
\* the stream, and a stopRecording call waiting on the stop event goes on to
\* build the blob and runs sendRecording up to its fetch
StopEvent(i, size) ==
  /\ sessions[i].events = "queued"
  /\ audioChunks' = PushChunk(audioChunks, i, size)
  /\ sessions' = [sessions EXCEPT ![i].events = "done", ![i].stream = "stopped",
                                  ![i].stopWaiter = FALSE]
  /\ IF sessions[i].stopWaiter
     THEN /\ isRecording' = FALSE
          /\ sends' = [sends EXCEPT ![i] = [NoSend EXCEPT !.pc = "fetching",
                                              !.payload = ChatHistoryPayload(chatHistory),
                                              !.blob = audioChunks']]
          /\ status' = UploadingMsg
     ELSE UNCHANGED <<isRecording, sends, status>>
  /\ op' = Op("stopEvent", i, NoMsg)
  /\ UNCHANGED <<selfStops, mediaRecorder, chatHistory, serverVars, normVars>>

\* app.js:228-233, 254-257: fetch rejects, or resolves with the server's response
\* or with a body that is not JSON
FetchSettles(i, how) ==
  /\ sends[i].pc = "fetching"
  /\ CASE how = "networkError" ->
            /\ sends' = [sends EXCEPT ![i] = [NoSend EXCEPT !.pc = "done"]]
            /\ status' = FailedToFetchMsg
            /\ op' = Op("fetchSettles", i, FailedToFetchMsg)
       [] how = "notJson" ->
            /\ sends' = [sends EXCEPT ![i] = [NoSend EXCEPT !.pc = "readingBody",
                                                             !.response = ErrorResponse(500, NoMsg)]]
            /\ status' = TranscribingMsg
            /\ op' = Op("fetchSettles", i, NoMsg)
       [] how = "served" ->
            /\ \E tr \in ServedTurns(ClientRequest(sends[i].payload)) :
                 sends' = [sends EXCEPT ![i] = [NoSend EXCEPT !.pc = "readingBody",
                                                              !.parsable = TRUE,
                                                              !.response = tr.responses[1],
                                                              !.calls = tr.started]]
            /\ status' = TranscribingMsg
            /\ op' = Op("fetchSettles", i, NoMsg)
  /\ UNCHANGED <<selfStops, isRecording, mediaRecorder, audioChunks, chatHistory, sessions,
                 serverVars, normVars>>

\* sendRecording posting the recording again when the server answers with an error
BodySettles_PostsAgain(i) ==
  /\ sends[i].pc = "readingBody"
  /\ LET data == sends[i].response
     IN IF ~sends[i].parsable
        THEN /\ status' = SyntaxErrorMsg
             /\ sends' = [sends EXCEPT ![i] = [NoSend EXCEPT !.pc = "done"]]
             /\ op' = Op("bodySettles", i, SyntaxErrorMsg)
             /\ UNCHANGED chatHistory
        ELSE IF data.status # 200
        THEN /\ status' = UploadingMsg
             /\ sends' = [sends EXCEPT ![i] = [NoSend EXCEPT !.pc = "fetching",
                                                 !.payload = ChatHistoryPayload(chatHistory),
                                                 !.blob = audioChunks]]
             /\ op' = Op("bodySettles", i, NoMsg)
             /\ UNCHANGED chatHistory
        ELSE /\ chatHistory' = AppendTurn(chatHistory, data)
             /\ IF data.assistantReply # <<>> /\ data.audioBase64 # "none"
                THEN /\ status' = SynthesizingMsg
                     /\ sends' = [sends EXCEPT ![i] = [NoSend EXCEPT !.pc = "playing"]]
                ELSE /\ status' = ReadyMsg
                     /\ sends' = [sends EXCEPT ![i] = [NoSend EXCEPT !.pc = "done"]]
             /\ op' = Op("bodySettles", i, NoMsg)
  /\ UNCHANGED <<selfStops, isRecording, mediaRecorder, audioChunks, sessions, serverVars, normVars>>

\* app.js:234-257: response.json() settles and the rest of sendRecording runs
BodySettles(i) ==
  /\ sends[i].pc = "readingBody"
  /\ LET data == sends[i].response
     IN IF ~sends[i].parsable
        THEN /\ status' = SyntaxErrorMsg
             /\ sends' = [sends EXCEPT ![i] = [NoSend EXCEPT !.pc = "done"]]
             /\ op' = Op("bodySettles", i, SyntaxErrorMsg)
             /\ UNCHANGED chatHistory
        ELSE IF data.status # 200
        THEN LET m == IF data.error = NoMsg THEN RequestFailedMsg ELSE data.error
             IN /\ status' = m
                /\ sends' = [sends EXCEPT ![i] = [NoSend EXCEPT !.pc = "done"]]
                /\ op' = Op("bodySettles", i, m)
                /\ UNCHANGED chatHistory
        ELSE /\ chatHistory' = AppendTurn(chatHistory, data)
             /\ IF data.assistantReply # <<>> /\ data.audioBase64 # "none"
                THEN /\ status' = SynthesizingMsg
                     /\ sends' = [sends EXCEPT ![i] = [NoSend EXCEPT !.pc = "playing"]]
                ELSE /\ status' = ReadyMsg
                     /\ sends' = [sends EXCEPT ![i] = [NoSend EXCEPT !.pc = "done"]]
             /\ op' = Op("bodySettles", i, NoMsg)
  /\ UNCHANGED <<selfStops, isRecording, mediaRecorder, audioChunks, sessions, serverVars, normVars>>

\* app.js:249-253: playLatestAssistantAudio settles
PlaySettles(i) ==
  /\ sends[i].pc = "playing"
  /\ sends' = [sends EXCEPT ![i] = [NoSend EXCEPT !.pc = "done"]]
  /\ status' = ReadyMsg
  /\ op' = Op("playSettles", i, NoMsg)
  /\ UNCHANGED <<selfStops, isRecording, mediaRecorder, audioChunks, chatHistory, sessions,
                 serverVars, normVars>>

\* clearChat that drops only the newest entry
ClickClear_DropsNewest ==
  /\ chatHistory' = SubSeq(chatHistory, 1, Len(chatHistory) - 1)
  /\ op' = Op("clickClear", 0, NoMsg)
  /\ UNCHANGED <<selfStops, isRecording, mediaRecorder, audioChunks, status, sessions, sends,
                 serverVars, normVars>>
\* app.js:270-274: the clear button is clicked
ClickClear ==
  /\ chatHistory' = <<>>
  /\ op' = Op("clickClear", 0, NoMsg)
  /\ UNCHANGED <<selfStops, isRecording, mediaRecorder, audioChunks, status, sessions, sends,
                 serverVars, normVars>>

----------------------------------------------------------------------------
(* normalizeChatHistory on its own *)

RawInputs ==
  {RawUndefined, RawEmpty, RawBadText, RawObject,
   RawTextOf("object", <<>>), RawTextOf("number", <<>>), RawTextOf("null", <<>>)}
  \cup {RawArray(a) : a \in SeqsUpTo(Entries, 1)}
  \cup {JSONStringifyHistory(a) : a \in SeqsUpTo(Entries, MaxHist)}

CallNormalize ==
  /\ normOut = <<"pending">>
  /\ normOut' = <<"returned", normalizeChatHistory(normIn)>>
  /\ UNCHANGED <<normIn, transcribeCall, serverVars, clientVars>>

----------------------------------------------------------------------------
(* transcribeAudio on its own *)

NoCall == [pc |-> "none", translate |-> FALSE, mimeType |-> "", filename |-> "",
           form |-> <<>>, response |-> CHOOSE o \in WhisperOutcomes : o.kind = "throw",
           result |-> Ok(<<>>)]

\* the arguments of a call and the response its fetch is going to get
TranscribeCalls ==
  {[NoCall EXCEPT !.pc = "called", !.translate = tl, !.mimeType = mt, !.filename = fn,
                  !.response = o] :
     tl \in BOOLEAN, mt \in {"", "audio/ogg"}, fn \in {"", "recording.ogg"},
     o \in WhisperResponses}

\* server.js:56-66: the form fields, in the order they are appended
WhisperForm(c) ==
  <<[name |-> "file",
     type |-> IF c.mimeType = "" THEN "audio/webm" ELSE c.mimeType,
     filename |-> IF c.filename = "" THEN "recording.webm" ELSE c.filename],
    [name |-> "response_format", type |-> responseFormat, filename |-> ""]>>
  \o (IF c.translate
      THEN <<[name |-> "translate", type |-> "true", filename |-> ""]>> ELSE <<>>)

\* server.js:55-71: transcribeAudio runs up to its fetch
SendToWhisper ==
  /\ transcribeCall.pc = "called"
  /\ transcribeCall' = [transcribeCall EXCEPT !.pc = "awaiting", !.form = WhisperForm(transcribeCall)]
  /\ UNCHANGED <<normIn, normOut, serverVars, clientVars>>

\* server.js:73-91: the fetch settles and transcribeAudio returns or throws
WhisperAnswers ==
  /\ transcribeCall.pc = "awaiting"
  /\ transcribeCall' = [transcribeCall EXCEPT !.pc = "settled",
                                              !.result = transcribeAudio(transcribeCall.response)]
  /\ UNCHANGED <<normIn, normOut, serverVars, clientVars>>

----------------------------------------------------------------------------
(* Specifications *)

\* the process has loaded both reference-voice files and is listening
ServerUp ==
  /\ refFiles = GoodFiles
  /\ serverState = "listening"
  /\ referenceAudioBuffer = "refWav"
  /\ referenceText = <<"a">>

InitServer ==
  /\ llmPostprompt \in {<<>>, <<"a">>}
  /\ turns = [t \in Turns |-> NewTurn]
  /\ ServerUp

InitClient ==
  /\ isRecording = FALSE
  /\ mediaRecorder = 0
  /\ audioChunks = <<>>
  /\ chatHistory = <<>>
  /\ status = StatusMsg("")
  /\ sessions = [i \in Recs |-> NoSession]
  /\ sends = [i \in Recs |-> NoSend]
  /\ selfStops = 0
  /\ op = Op("init", 0, NoMsg)

\* no request is in flight and normalizeChatHistory is not being called
Init ==
  /\ InitServer
  /\ InitClient
  /\ normIn = RawUndefined
  /\ normOut = <<"pending">>
  /\ transcribeCall = NoCall

\* the page is loaded from a server started with LLM_POSTPROMPT unset
\* (server.js:27); its requests are served within the step that answers them
InitPage ==
  /\ llmPostprompt = <<>>
  /\ turns = <<>>
  /\ ServerUp
  /\ InitClient
  /\ normIn = RawUndefined
  /\ normOut = <<"pending">>
  /\ transcribeCall = NoCall

InitNorm ==
  /\ llmPostprompt = <<>>
  /\ turns = <<>>
  /\ ServerUp
  /\ InitClient
  /\ normIn \in RawInputs
  /\ normOut = <<"pending">>
  /\ transcribeCall = NoCall

NextServer ==
  \/ \E t \in Turns, req \in Requests : ChatRequest(t, req)
  \/ \E t \in Turns, o \in WhisperOutcomes : WhisperSettles(t, o)
  \/ \E t \in Turns, o \in LlmOutcomes : LlmSettles(t, o)
  \/ \E t \in Turns, o \in TtsOutcomes : TtsSettles(t, o)

NextClient ==
  \/ ClickRecord
  \/ CallStartRecording
  \/ \E i \in Recs, name \in MicErrorNames : MediaDenied(i, name)
  \/ \E i \in Recs, how \in {"ok", "ctorThrows", "startThrows"} : MediaGranted(i, how)
  \/ \E i \in Recs : EncoderStopsItself(i)
  \/ \E i \in Recs, size \in {0, 1} : StopEvent(i, size)
  \/ \E i \in Recs, how \in {"networkError", "notJson", "served"} : FetchSettles(i, how)
  \/ \E i \in Recs : BodySettles(i)
  \/ \E i \in Recs : PlaySettles(i)
  \/ ClickClear

NextNorm == CallNormalize

\* the /api/chat handler serving concurrent requests
SpecServer == Init /\ [][NextServer]_vars

\* the page script, with the server answering its requests
SpecClient == InitPage /\ [][NextClient]_vars

\* normalizeChatHistory applied once to a bounded input
SpecNorm == InitNorm /\ [][NextNorm]_vars

\* the process from its start, with whatever reference-voice files are on disk
InitStartup ==
  /\ llmPostprompt = <<>>
  /\ turns = [t \in Turns |-> NewTurn]
  /\ refFiles \in [audio : AudioFiles, text : TextFiles]
  /\ serverState = "loading"
  /\ referenceAudioBuffer = "none"
  /\ referenceText = <<>>
  /\ InitClient
  /\ normIn = RawUndefined
  /\ normOut = <<"pending">>
  /\ transcribeCall = NoCall

NextStartup ==
  \/ StartServer
  \/ NextServer

SpecStartup == InitStartup /\ [][NextStartup]_vars

\* one call of transcribeAudio
InitTranscribe ==
  /\ llmPostprompt = <<>>
  /\ turns = <<>>
  /\ ServerUp
  /\ InitClient
  /\ normIn = RawUndefined
  /\ normOut = <<"pending">>
  /\ transcribeCall \in TranscribeCalls

NextTranscribe ==
  \/ SendToWhisper
  \/ WhisperAnswers

SpecTranscribe == InitTranscribe /\ [][NextTranscribe]_vars

\* requests with an audio file and any history of up to MaxHist entries
HistoryRequests ==
  {[file |-> TRUE, audio |-> "blob", body |-> TRUE, chatHistory |-> JSONStringifyHistory(a)] :
     a \in SeqsUpTo(Entries, MaxHist)}

\* one turn from its request to the completion request it sends
NextCompletion ==
  \/ turns[1].pc = "new" /\ \E req \in HistoryRequests : ChatRequest(1, req)
  \/ \E o \in WhisperOutcomes : WhisperSettles(1, o)

SpecCompletion == Init /\ [][NextCompletion]_vars

\* the handler with services that may never answer: a service that does answer
\* is heard, and the event loop then runs the handler's continuation
NextServerLive ==
  \/ NextServer
  \/ \E t \in Turns : ServiceStalls(t)

FairServer ==
  \A t \in Turns :
    /\ WF_vars(\E o \in WhisperOutcomes : WhisperSettles(t, o))
    /\ WF_vars(\E o \in LlmOutcomes : LlmSettles(t, o))
    /\ WF_vars(\E o \in TtsOutcomes : TtsSettles(t, o))

SpecServerLive == Init /\ [][NextServerLive]_vars /\ FairServer

----------------------------------------------------------------------------
(* Properties of the /api/chat handler, checked under SpecServer *)

Arrived == {t \in Turns : turns[t].pc # "new"}

\* C1: when transcribeAudio fails, the turn calls neither the completion nor
\* the synthesis service, and the one response it sends is a 500 whose error
\* is the message transcribeAudio threw.
C1_TranscriptionFailureAborts ==
  \A t \in Turns :
    turns[t].settled["whisper"] = "fail" =>
      /\ turns[t].started["llm"] = 0
      /\ turns[t].started["tts"] = 0
      /\ ~turns[t].out["whisper"].ok
      /\ turns[t].out["whisper"].error # NoMsg
      /\ turns[t].responses = <<ErrorResponse(500, turns[t].out["whisper"].error)>>

C1_Witness ==
  \E t \in Turns :
    /\ turns[t].settled["whisper"] = "fail"
    /\ turns[t].pc = "done"
    /\ turns[t].responses[1].error = Msg("Whisper server error: ", 503, <<"a">>)

\* C2: within a turn the stages run in the order transcription, completion,
\* synthesis, one at a time; a stage starts only after the one before it
\* returned successfully; the first failing stage ends the turn with exactly
\* one error response and no later stage started.
StageOrder == <<"whisper", "llm", "tts">>

C2_StagesStrictlySequential ==
  \A t \in Turns :
    LET tr == turns[t]
        running == {s \in Stages : tr.started[s] > 0 /\ tr.settled[s] = "none"}
    IN /\ \A s \in Stages : tr.started[s] <= 1
       /\ Cardinality(running) <= 1
       /\ \A k \in 2..3 : tr.started[StageOrder[k]] > 0 => tr.settled[StageOrder[k - 1]] = "ok"
       /\ Len(tr.responses) <= 1
       /\ \A k \in 1..3 :
            tr.settled[StageOrder[k]] = "fail" =>
              /\ tr.pc = "done"
              /\ tr.responses = <<ErrorResponse(500, tr.out[StageOrder[k]].error)>>
              /\ \A j \in (k + 1)..3 : tr.started[StageOrder[j]] = 0

C2_Witness ==
  \E t \in Turns :
    /\ turns[t].settled["whisper"] = "ok"
    /\ turns[t].settled["llm"] = "fail"
    /\ turns[t].started["tts"] = 0
    /\ Len(turns[t].responses) = 1

\* C3: a completion whose first choice's content is missing, null or blank
\* makes generateAssistantReply throw "LLM response was empty."; the turn then
\* answers with that error, and no empty reply reaches synthesizeSpeech or the
\* client.
BlankCompletion(o) ==
  /\ o.kind = "completion"
  /\ \/ o.shape \in {"noChoices", "emptyChoices", "noMessage", "noContent", "nullContent"}
     \/ o.shape = "content" /\ \A k \in 1..Len(o.content) : o.content[k] = " "

C3_BlankReplyStep ==
  \A t \in Turns, o \in LlmOutcomes :
    (BlankCompletion(o) /\ LlmSettles(t, o)) =>
      /\ turns'[t].out["llm"] = Throw(EmptyReplyMsg)
      /\ turns'[t].started["tts"] = 0
      /\ turns'[t].responses = <<ErrorResponse(500, EmptyReplyMsg)>>

C3_NoEmptyReplyDownstream ==
  \A t \in Turns :
    /\ turns[t].started["tts"] > 0 => turns[t].ttsIn # <<>>
    /\ \A k \in 1..Len(turns[t].responses) :
         turns[t].responses[k].status = 200 => turns[t].responses[k].assistantReply # <<>>

C3_EmptyReplyAlwaysFails ==
  [][C3_BlankReplyStep]_vars /\ []C3_NoEmptyReplyDownstream

C3_Witness ==
  \E t \in Turns :
    /\ turns[t].settled["llm"] = "fail"
    /\ turns[t].out["llm"] = Throw(EmptyReplyMsg)
    /\ turns[t].responses = <<ErrorResponse(500, EmptyReplyMsg)>>

\* C4: a request without an audio file gets one error response with a non-2xx
\* status and a message, and no external service is called for it.
C4_MissingAudioRejected ==
  \A t \in Arrived :
    ~turns[t].req.file =>
      /\ turns[t].pc = "done"
      /\ Len(turns[t].responses) = 1
      /\ turns[t].responses[1].status \notin 200..299
      /\ turns[t].responses[1].error # NoMsg
      /\ \A s \in Stages : turns[t].started[s] = 0

C4_Witness ==
  \E t \in Arrived :
    /\ ~turns[t].req.file
    /\ turns[t].responses = <<ErrorResponse(400, MissingAudioMsg)>>

\* C7: a 200 response is {transcript, assistantReply, audioBase64} holding what
\* this turn's transcription, completion and synthesis stages returned, where
\* the completion was asked about this transcript after the normalized history
\* and the synthesis was asked for this reply.
C7_SuccessCarriesOwnStageOutputs ==
  \A t \in Turns :
    \A k \in 1..Len(turns[t].responses) :
      turns[t].responses[k].status = 200 =>
        LET tr == turns[t]
        IN /\ \A s \in Stages : tr.settled[s] = "ok" /\ tr.out[s].ok
           /\ tr.responses[k] = SuccessResponse(tr.out["whisper"].value,
                                                 tr.out["llm"].value,
                                                 tr.out["tts"].value)
           /\ tr.whisperIn = tr.req.audio
           /\ tr.llmIn = BuildMessages(tr.out["whisper"].value,
                                       normalizeChatHistory(tr.req.chatHistory))
           /\ tr.ttsIn = tr.out["llm"].value

C7_Witness ==
  \E t, u \in Turns :
    /\ t # u
    /\ turns[t].pc = "done" /\ turns[u].pc = "done"
    /\ Len(turns[t].responses) = 1 /\ Len(turns[u].responses) = 1
    /\ turns[t].responses[1].status = 200 /\ turns[u].responses[1].status = 200
    /\ turns[t].responses[1].transcript # turns[u].responses[1].transcript
    /\ turns[t].responses[1].audioBase64 # turns[u].responses[1].audioBase64

----------------------------------------------------------------------------
(* Properties of normalizeChatHistory, checked under SpecNorm *)

\* an entry the history keeps: role user or assistant, content a string that
\* is not blank
ValidEntry(e) ==
  /\ e.t = "object"
  /\ e.role \in {"user", "assistant"}
  /\ e.content.t = "string"
  /\ \E k \in 1..Len(e.content.v) : e.content.v[k] # " "

\* the text between the first and the last non-space character
Trimmed(v) ==
  LET ks == {k \in 1..Len(v) : v[k] # " "}
      lo == CHOOSE k \in ks : \A j \in ks : k <= j
      hi == CHOOSE k \in ks : \A j \in ks : k >= j
  IN IF ks = {} THEN <<>> ELSE SubSeq(v, lo, hi)

InputIsArray(raw) ==
  \/ raw.kind = "array"
  \/ raw.kind = "text" /\ raw.parses /\ raw.json = "array"

\* C5: normalizeChatHistory returns exactly the valid entries of an array, in
\* their order, each as {role, content} with the content trimmed; anything
\* that is not an array, or does not parse, gives the empty history.
C5_NormalizeKeepsExactlyValidEntries ==
  normOut[1] = "returned" =>
    LET kept == SelectSeq(normIn.arr, ValidEntry)
    IN IF InputIsArray(normIn)
       THEN /\ Len(normOut[2]) = Len(kept)
            /\ \A k \in 1..Len(kept) :
                 normOut[2][k] = [role |-> kept[k].role, content |-> Trimmed(kept[k].content.v)]
       ELSE normOut[2] = <<>>

C5_Witness ==
  /\ normOut[1] = "returned"
  /\ Len(normIn.arr) = 2
  /\ ~ValidEntry(normIn.arr[1])
  /\ ValidEntry(normIn.arr[2])
  /\ Len(normOut[2]) = 1
  /\ normOut[2][1].content # normIn.arr[2].content.v

----------------------------------------------------------------------------
(* Properties of the page script, checked under SpecClient *)

\* the step in which sendRecording i finishes reading a parsed 2xx response
SuccessStep(i) ==
  /\ sends[i].pc = "readingBody"
  /\ sends[i].parsable
  /\ sends[i].response.status = 200
  /\ sends'[i].pc \in {"playing", "done"}

\* C6: every successful turn appends exactly two entries to chatHistory, the
\* user turn with the transcript and then the assistant turn with the reply,
\* also when the transcript is the empty string.
C6_TwoAppendsPerSuccessfulTurn ==
  [][\A i \in Recs :
       SuccessStep(i) =>
         chatHistory' = chatHistory \o
           <<[role |-> "user", content |-> sends[i].response.transcript,
              audioBase64 |-> "none"],
             [role |-> "assistant", content |-> sends[i].response.assistantReply,
              audioBase64 |-> sends[i].response.audioBase64]>>]_vars

\* a start request that ran: op names startRecording and differs from before
StartRan == op'.name = "startRecording" /\ op' # op

\* C8: startRecording called while isRecording is true changes none of
\* isRecording, mediaRecorder, audioChunks, and requests no microphone stream.
C8_StartWhileRecordingIsNoOp ==
  [][(StartRan /\ isRecording) =>
       /\ UNCHANGED <<isRecording, mediaRecorder, audioChunks>>
       /\ UNCHANGED sessions
       /\ op'.id = 0]_vars

C8_Witness ==
  /\ op.name = "startRecording"
  /\ op.id = 0
  /\ isRecording
  /\ mediaRecorder # 0
  /\ sessions[mediaRecorder].encoder = "recording"

\* C9: at most one session holds a live microphone stream, and a start request
\* that arrives while getUserMedia is pending, while recording, or while a stop
\* or a submitted turn is pending, opens no further stream.
Requesting == \E i \in Recs : sessions[i].stream = "pending"
Finalizing ==
  \/ \E i \in Recs : sessions[i].stopWaiter /\ sessions[i].events = "queued"
  \/ \E i \in Recs : sends[i].pc \in {"fetching", "readingBody"}

C9_AtMostOneLiveStream == Cardinality({i \in Recs : sessions[i].stream = "live"}) <= 1

C9_SingleFlightRecording ==
  /\ []C9_AtMostOneLiveStream
  /\ [][(StartRan /\ (Requesting \/ isRecording \/ Finalizing)) => UNCHANGED sessions]_vars

\* C10: once the stop is acknowledged isRecording is false before the turn is
\* submitted; whatever then happens to the submission leaves isRecording
\* alone, and each of its failures ends sendRecording with the failure's
\* message as the status line; with isRecording false a start request asks for
\* the microphone.
C10_Step ==
  /\ \A i \in Recs :
       /\ (sends[i].pc = "none" /\ sends'[i].pc # "none") => ~isRecording'
       /\ (sends[i].pc \in {"fetching", "readingBody", "playing"} /\ sends'[i] # sends[i]) =>
            /\ isRecording' = isRecording
            /\ op'.name \in {"fetchSettles", "bodySettles", "playSettles"}
            /\ op'.err # NoMsg => (status' = op'.err /\ sends'[i].pc = "done")
  /\ (StartRan /\ ~isRecording) =>
       (op'.id \in Recs /\ sessions'[op'.id].stream = "pending")

C10_IdleAfterSubmission == [][C10_Step]_vars

C10_Witness ==
  /\ op.name = "bodySettles"
  /\ op.err = SyntaxErrorMsg
  /\ status = SyntaxErrorMsg
  /\ sends[op.id].pc = "done"
  /\ ~isRecording


----------------------------------------------------------------------------
(* Properties of the chat history, checked under SpecClient *)

IsPrefix(s, t) == Len(s) <= Len(t) /\ SubSeq(t, 1, Len(s)) = s

\* C11: a clear leaves chatHistory with no entry whatever it held, and no step
\* of the page leaves a history that holds some but not all of the entries it
\* held before: every step keeps the history, appends to it, or empties it.
C11_Step ==
  /\ (op'.name = "clickClear" /\ op' # op) => chatHistory' = <<>>
  /\ chatHistory' = <<>> \/ IsPrefix(chatHistory, chatHistory')

C11_ClearLeavesNoTurns == [][C11_Step]_vars

\* cleared while a submission carrying the two entries of the first turn is pending
C11_Witness ==
  /\ op.name = "clickClear"
  /\ chatHistory = <<>>
  /\ \E i \in Recs : sends[i].pc = "fetching" /\ Len(sends[i].payload) = 2
----------------------------------------------------------------------------
(* Logging of aborted turns, checked under SpecServer *)

\* a turn the handler ended without a 200 response
Aborted(t) ==
  /\ turns[t].pc = "done"
  /\ \A k \in 1..Len(turns[t].responses) : turns[t].responses[k].status # 200

\* C12: every aborted turn (missing audio, transcription failure, empty reply,
\* completion failure, synthesis failure) has written one console.error entry
\* and sent one response with a non-2xx status and an error message.
C12_EveryAbortLogsAndAnswers ==
  \A t \in Turns :
    Aborted(t) =>
      /\ turns[t].logged = 1
      /\ Len(turns[t].responses) = 1
      /\ turns[t].responses[1].status \notin 200..299
      /\ turns[t].responses[1].error # NoMsg----------------------------------------------------------------------------
(* Termination of a turn, checked under SpecServerLive *)

\* C13: every turn the handler has taken up ends, with a response sent, also
\* when a service it awaits never answers.
C13_EveryTurnEnds ==
  \A t \in Turns : (turns[t].pc # "new") ~> (turns[t].pc = "done")
----------------------------------------------------------------------------
(* Start-up, checked under SpecStartup *)

\* both reference-voice files are present and neither is empty
RefVoiceUsable ==
  /\ refFiles.audio = "refWav"
  /\ refFiles.text.exists
  /\ Trim(refFiles.text.content) # <<>>

\* C14: the process listens, and takes up a turn, only when the reference audio
\* file and the reference transcript file are both present and not empty (the
\* transcript not blank).
C14_StartsOnlyWithReferenceVoice ==
  /\ serverState = "listening" => RefVoiceUsable
  /\ (\E t \in Turns : turns[t].pc # "new") => RefVoiceUsable
----------------------------------------------------------------------------
(* Isolation of concurrent turns, checked under SpecStartup *)

\* what a step may touch: one turn's record, never the request or the history
\* of a turn already taken up, never the configuration or the reference voice
\* of a listening process
C15_Step ==
  /\ \A t, u \in Turns : (t # u /\ turns'[t] # turns[t]) => turns'[u] = turns[u]
  /\ \A t \in Turns :
       turns[t].pc # "new" =>
         /\ turns'[t].req = turns[t].req
         /\ turns'[t].chatHistory = turns[t].chatHistory
  /\ serverState = "listening" =>
       UNCHANGED <<llmPostprompt, serverState, referenceAudioBuffer, referenceText>>

\* what each stage of a turn is given: the turn's own request and the outputs
\* of its own earlier stages, and the reference voice loaded at start-up
C15_OwnInputs ==
  \A t \in Turns :
    LET tr == turns[t]
    IN /\ (tr.pc # "new" /\ tr.req.body) =>
            tr.chatHistory = normalizeChatHistory(tr.req.chatHistory)
       /\ tr.started["whisper"] > 0 => tr.whisperIn = tr.req.audio
       /\ tr.started["llm"] > 0 =>
            /\ tr.transcript = tr.out["whisper"].value
            /\ tr.llmIn = BuildMessages(tr.transcript, tr.chatHistory)
       /\ tr.started["tts"] > 0 =>
            /\ tr.assistantReply = tr.out["llm"].value
            /\ tr.ttsIn = tr.assistantReply
            /\ tr.ttsRef = [audio |-> referenceAudioBuffer, text |-> referenceText]
            /\ tr.ttsRef.text = Trim(refFiles.text.content)

\* C15: under every interleaving of the stage calls of concurrent turns, each
\* stage of a turn works on that turn's own request and stage outputs, a step
\* of one turn changes nothing of another, the received history is not changed
\* once normalized, and every synthesis request carries the reference voice as
\* loaded at start-up, which no step changes.
C15_TurnsShareNoMutableState == [][C15_Step]_vars /\ []C15_OwnInputs

\* two turns in flight at different stages with different transcripts, the
\* first already synthesizing with the reference transcript trimmed at start-up
C15_Witness ==
  \E t, u \in Turns :
    /\ turns[t].pc = "synthesizing" /\ turns[u].pc = "completing"
    /\ turns[t].transcript # turns[u].transcript
    /\ turns[t].chatHistory # <<>>
    /\ refFiles.text.content = <<" ", "a", " ">>
    /\ turns[t].ttsRef = [audio |-> "refWav", text |-> <<"a">>]
----------------------------------------------------------------------------
(* Order of stop, release and upload, checked under SpecClient *)

\* a released stream, and a built blob, belong to an encoder that has raised
\* its stop event
C16_AfterStopEvent ==
  \A i \in Recs :
    /\ sessions[i].stream = "stopped" =>
         (sessions[i].encoder = "inactive" /\ sessions[i].events = "done")
    /\ sends[i].pc # "none" =>
         (sessions[i].encoder = "inactive" /\ sessions[i].events = "done")

\* the step that raises encoder i's events for a waiting stopRecording: the
\* blob is audioChunks as it is after the fragment delivered in that step
C16_BlobStep ==
  \A i \in Recs, size \in {0, 1} :
    (sessions[i].stopWaiter /\ StopEvent(i, size)) =>
      /\ sends'[i].pc = "fetching"
      /\ sends'[i].blob = audioChunks'
      /\ IsPrefix(audioChunks, sends'[i].blob)
      /\ size > 0 => sends'[i].blob = Append(audioChunks, i)

\* C16: the stream is released and the blob is built and submitted only once
\* the encoder has raised its stop event, never while it is recording, and the
\* blob holds every fragment delivered up to that event, in delivery order.
C16_StopBeforeReleaseAndUpload == []C16_AfterStopEvent /\ [][C16_BlobStep]_vars

\* the blob of encoder i is submitted with its fragment while another encoder,
\* granted during the wait for the stop event, is the current one
C16_Witness ==
  \E i \in Recs :
    /\ op = Op("stopEvent", i, NoMsg)
    /\ sends[i].pc = "fetching"
    /\ sends[i].blob = <<i>>
    /\ sessions[i].stream = "stopped"
    /\ mediaRecorder \notin {0, i}
----------------------------------------------------------------------------
(* Release of the microphone, checked under SpecClient *)

\* the recorder is idle: not recording, no microphone request pending, no stop
\* or submitted turn pending
Idle == ~isRecording /\ ~Requesting /\ ~Finalizing

\* C17: while the recorder is idle no stream acquired earlier is still open,
\* also after the encoder could not be constructed or started.
C17_NoStreamHeldWhileIdle ==
  Idle => \A i \in Recs : sessions[i].stream # "live"
----------------------------------------------------------------------------
(* Properties of transcribeAudio, checked under SpecTranscribe *)

\* C18: for a 2xx response transcribeAudio returns the trimmed value of the
\* text field when the body is an object with a string text, and the trimmed
\* body otherwise (plain text, or a body the field cannot be taken from); it
\* throws for no 2xx body. For another status it throws an error carrying the
\* status and the body.
C18_TranscriptFromBodyOrTextField ==
  transcribeCall.pc = "settled" =>
    LET o == transcribeCall.response
        r == transcribeCall.result
    IN /\ (o.kind = "response" /\ o.ok) =>
            r = IF o.json.t = "object" /\ o.json.text.t = "string"
                THEN Ok(Trim(o.json.text.v))
                ELSE Ok(Trim(o.raw))
       /\ (o.kind = "response" /\ ~o.ok) =>
            r = Throw(Msg("Whisper server error: ", o.status, o.raw))
----------------------------------------------------------------------------
(* The completion request, checked under SpecCompletion *)

\* C19: the messages sent to the completion service are the system
\* instruction, the preamble, the entries of the normalized history in their
\* order and unchanged, the transcript as a user message, and last the
\* postscript exactly when one is configured; the history the turn holds stays
\* the normalized history of its request.
C19_MessageListOrder ==
  \A t \in Turns :
    turns[t].started["llm"] > 0 =>
      LET m == turns[t].llmIn
          h == normalizeChatHistory(turns[t].req.chatHistory)
          n == Len(h)
      IN /\ Len(m) = n + 3 + (IF llmPostprompt # <<>> THEN 1 ELSE 0)
         /\ m[1] = [role |-> "system", content |-> llmSystem]
         /\ m[2] = [role |-> "user", content |-> llmPreprompt]
         /\ \A k \in 1..n : m[2 + k] = h[k]
         /\ m[n + 3] = [role |-> "user", content |-> turns[t].out["whisper"].value]
         /\ llmPostprompt # <<>> => m[n + 4] = [role |-> "user", content |-> llmPostprompt]
         /\ turns[t].chatHistory = h

\* a history of two different entries, a transcript and a postscript
C19_Witness ==
  /\ turns[1].pc = "completing"
  /\ llmPostprompt # <<>>
  /\ Len(turns[1].chatHistory) = 2
  /\ turns[1].chatHistory[1] # turns[1].chatHistory[2]
  /\ turns[1].transcript # <<>>
  /\ Len(turns[1].llmIn) = 6
----------------------------------------------------------------------------
(* One attempt per utterance, checked under SpecClient *)

\* C20: a recording is posted to /api/chat once, by the stop of that recording
\* and by nothing else; the handler answering it has called each of the three
\* services at most once; a submission that has ended, failed or not, is not
\* posted again.
C20_Step ==
  \A i \in Recs :
    /\ (sends'[i].pc = "fetching" /\ sends[i].pc # "fetching") =>
         /\ sends[i].pc = "none"
         /\ sessions[i].stopWaiter
         /\ op' = Op("stopEvent", i, NoMsg)
    /\ (sends[i].pc = "fetching" /\ sends'[i].pc = "readingBody") =>
         \A s \in Stages : sends'[i].calls[s] <= 1
    /\ sends[i].pc = "done" => sends'[i].pc = "done"

----------------------------------------------------------------------------
(* The staged page script (part_001): sendRecording posts to /api/transcribe,
   /api/llm and /api/tts in turn.  Its recorder is the one modelled above; here
   each recording is taken at the point where stopRecording, resumed by the
   stop event, calls sendRecording. *)

StagedTranscribingMsg == StatusMsg("Transcribing audio...")
ThinkingMsg == StatusMsg("Thinking about it...")
FindingWordsMsg == StatusMsg("Finding the words...")
EmptyTranscriptionMsg == StatusMsg("Transcription was empty.")
EmptyLlmResponseMsg == StatusMsg("LLM response was empty.")
ServerErrorMsg == StatusMsg("Upstream service failed.")

\* the transcript / assistantReply property of a parsed body
StagedValues == {Undef, Str(<<>>), Str(<<"a">>)}

\* the audioBase64 property of a parsed /api/tts body: absent or audio
StagedAudioValues == {Undef, Str(<<"w">>)}

\* how one fetch of the staged script and the reading of its body can end:
\* fetch rejects, response.json() rejects, or a body is parsed with response.ok
\* true or false
StagedAnswer(kind, ok, error, value) ==
  [kind |-> kind, ok |-> ok, error |-> error, value |-> value]
StagedFailures ==
  {StagedAnswer("networkError", FALSE, NoMsg, Undef),
   StagedAnswer("notJson", FALSE, NoMsg, Undef),
   StagedAnswer("json", FALSE, NoMsg, Undef),
   StagedAnswer("json", FALSE, ServerErrorMsg, Undef)}
StagedAnswers(values) ==
  StagedFailures \cup {StagedAnswer("json", TRUE, NoMsg, v) : v \in values}

\* the error a failed answer makes sendRecording throw (NoMsg: none)
StagedError(r) ==
  CASE r.kind = "networkError" -> FailedToFetchMsg
    [] r.kind = "notJson" -> SyntaxErrorMsg
    [] ~r.ok -> IF r.error = NoMsg THEN RequestFailedMsg ELSE r.error
    [] OTHER -> NoMsg

\* typeof v === "string" ? v : ""
StringOrEmpty(v) == IF v.t = "string" THEN v.v ELSE <<>>

\* one fetch call of sendRecording: its URL and what its body carries
Post(url, transcript, history, text) ==
  [url |-> url, transcript |-> transcript, chatHistory |-> history, text |-> text]

\* a sendRecording call of the staged script
NoStagedSend == [pc |-> "none", payload |-> <<>>, transcript |-> <<>>,
                 assistantReply |-> <<>>, posted |-> <<>>, error |-> NoMsg]

\* part_001:116-122 appendChatMessage; turn: the sendRecording call that pushed
\* the entry (not a property of the entry in the code)
StagedAppend(h, i, role, content, audioBase64) ==
  IF content = <<>> THEN h
  ELSE Append(h, [role |-> role, content |-> content, audioBase64 |-> audioBase64,
                  turn |-> i])

\* part_001:298-301: the catch of sendRecording
StagedCatch(i, m) ==
  /\ sends' = [sends EXCEPT ![i] = [NoStagedSend EXCEPT !.pc = "done", !.error = m]]
  /\ status' = m
  /\ op' = Op("stagedCatch", i, m)
  /\ UNCHANGED chatHistory

\* part_001:221-245: stopRecording builds the blob and calls sendRecording, which
\* runs up to its first await
StagedSendRecording(i) ==
  /\ sends[i].pc = "none"
  /\ \A j \in Recs : j < i => sends[j].pc # "none"
  /\ LET payload == ChatHistoryPayload(chatHistory)
     IN sends' = [sends EXCEPT ![i] =
                    [NoStagedSend EXCEPT
                       !.pc = "transcribing", !.payload = payload,
                       !.posted = <<Post("/api/transcribe", <<>>, payload, <<>>)>>]]
  /\ status' = StagedTranscribingMsg
  /\ op' = Op("stagedSendRecording", i, NoMsg)
  /\ UNCHANGED <<selfStops, isRecording, mediaRecorder, audioChunks, chatHistory, sessions,
                 serverVars, normVars>>

\* sendRecording asking for the completion whatever the transcript is
StagedTranscribeSettles_NoEmptyCheck(i, r) ==
  /\ sends[i].pc = "transcribing"
  /\ IF StagedError(r) # NoMsg
     THEN StagedCatch(i, StagedError(r))
     ELSE LET transcript == StringOrEmpty(r.value)
          IN /\ chatHistory' = StagedAppend(chatHistory, i, "user", transcript, "none")
             /\ status' = ThinkingMsg
             /\ sends' = [sends EXCEPT
                  ![i].pc = "thinking", ![i].transcript = transcript,
                  ![i].posted = Append(@, Post("/api/llm", transcript,
                                               sends[i].payload, <<>>))]
             /\ op' = Op("stagedTranscribeSettles", i, NoMsg)
  /\ UNCHANGED <<selfStops, isRecording, mediaRecorder, audioChunks, sessions,
                 serverVars, normVars>>
\* part_001:245-265: the /api/transcribe response and its body settle; the
\* transcript is checked and pushed, /api/llm is requested
StagedTranscribeSettles(i, r) ==
  /\ sends[i].pc = "transcribing"
  /\ IF StagedError(r) # NoMsg
     THEN StagedCatch(i, StagedError(r))
     ELSE LET transcript == StringOrEmpty(r.value)
          IN IF transcript = <<>>
             THEN StagedCatch(i, EmptyTranscriptionMsg)
             ELSE /\ chatHistory' = StagedAppend(chatHistory, i, "user", transcript, "none")
                  /\ status' = ThinkingMsg
                  /\ sends' = [sends EXCEPT
                       ![i].pc = "thinking", ![i].transcript = transcript,
                       ![i].posted = Append(@, Post("/api/llm", transcript,
                                                    sends[i].payload, <<>>))]
                  /\ op' = Op("stagedTranscribeSettles", i, NoMsg)
  /\ UNCHANGED <<selfStops, isRecording, mediaRecorder, audioChunks, sessions,
                 serverVars, normVars>>

\* part_001:266-283: the /api/llm response and its body settle; the reply is
\* checked, /api/tts is requested
StagedLlmSettles(i, r) ==
  /\ sends[i].pc = "thinking"
  /\ IF StagedError(r) # NoMsg
     THEN StagedCatch(i, StagedError(r))
     ELSE LET assistantReply == StringOrEmpty(r.value)
          IN IF assistantReply = <<>>
             THEN StagedCatch(i, EmptyLlmResponseMsg)
             ELSE /\ status' = FindingWordsMsg
                  /\ sends' = [sends EXCEPT
                       ![i].pc = "wording", ![i].assistantReply = assistantReply,
                       ![i].posted = Append(@, Post("/api/tts", <<>>, <<>>,
                                                    assistantReply))]
                  /\ op' = Op("stagedLlmSettles", i, NoMsg)
                  /\ UNCHANGED chatHistory
  /\ UNCHANGED <<selfStops, isRecording, mediaRecorder, audioChunks, sessions,
                 serverVars, normVars>>

\* part_001:284-298: the /api/tts response and its body settle; the assistant
\* turn is pushed and, with audio, played
StagedTtsSettles(i, r) ==
  /\ sends[i].pc = "wording"
  /\ IF StagedError(r) # NoMsg
     THEN StagedCatch(i, StagedError(r))
     ELSE LET audioBase64 == IF r.value.t = "string" THEN r.value.v ELSE <<>>
          IN /\ chatHistory' = StagedAppend(chatHistory, i, "assistant",
                                            sends[i].assistantReply,
                                            IF audioBase64 = <<>> THEN "none" ELSE "wavA")
             /\ IF audioBase64 # <<>>
                THEN /\ sends' = [sends EXCEPT ![i].pc = "playing"]
                     /\ UNCHANGED status
                ELSE /\ sends' = [sends EXCEPT ![i] = [NoStagedSend EXCEPT !.pc = "done"]]
                     /\ status' = ReadyMsg
             /\ op' = Op("stagedTtsSettles", i, NoMsg)
  /\ UNCHANGED <<selfStops, isRecording, mediaRecorder, audioChunks, sessions,
                 serverVars, normVars>>

\* part_001:294-297: playLatestAssistantAudio settles
StagedPlaySettles(i) ==
  /\ sends[i].pc = "playing"
  /\ sends' = [sends EXCEPT ![i] = [NoStagedSend EXCEPT !.pc = "done"]]
  /\ status' = ReadyMsg
  /\ op' = Op("stagedPlaySettles", i, NoMsg)
  /\ UNCHANGED <<selfStops, isRecording, mediaRecorder, audioChunks, chatHistory, sessions,
                 serverVars, normVars>>

InitStaged ==
  /\ llmPostprompt = <<>>
  /\ turns = <<>>
  /\ ServerUp
  /\ isRecording = FALSE
  /\ mediaRecorder = 0
  /\ audioChunks = <<>>
  /\ chatHistory = <<>>
  /\ status = StatusMsg("")
  /\ sessions = [i \in Recs |-> NoSession]
  /\ sends = [i \in Recs |-> NoStagedSend]
  /\ selfStops = 0
  /\ op = Op("init", 0, NoMsg)
  /\ normIn = RawUndefined
  /\ normOut = <<"pending">>
  /\ transcribeCall = NoCall

NextStaged ==
  \/ \E i \in Recs : StagedSendRecording(i)
  \/ \E i \in Recs, r \in StagedAnswers(StagedValues) : StagedTranscribeSettles(i, r)
  \/ \E i \in Recs, r \in StagedAnswers(StagedValues) : StagedLlmSettles(i, r)
  \/ \E i \in Recs, r \in StagedAnswers(StagedAudioValues) : StagedTtsSettles(i, r)
  \/ \E i \in Recs : StagedPlaySettles(i)
  \/ ClickClear

\* the staged page script with its three endpoints answering in any way
SpecStaged == InitStaged /\ [][NextStaged]_vars

----------------------------------------------------------------------------
(* Microphone failures, checked under SpecClient *)

\* the status line each kind of getUserMedia failure is to produce
MicMessage(name) ==
  CASE name = "NotAllowedError" ->
         StatusMsg("Microphone access was blocked. Allow it in the browser permissions.")
    [] name = "NotFoundError" ->
         StatusMsg("No microphone was found. Check your audio input.")
    [] name = "NotReadableError" ->
         StatusMsg("The microphone is in use by another application.")
    [] name = "SecurityError" ->
         StatusMsg("Microphone access requires HTTPS or localhost.")
    [] OTHER -> StatusMsg("Failed to access microphone.")

\* the step in which the getUserMedia request of start i is rejected
C21_DeniedStep(i, name) ==
  MediaDenied(i, name) =>
    /\ isRecording' = FALSE
    /\ sessions'[i].encoder = "none"
    /\ \A j \in Recs : sessions'[j].stream # "live"
    /\ status' = MicMessage(name)

\* C21: when getUserMedia rejects, the recorder is idle afterwards (isRecording
\* false, no encoder created, no stream held) and the status line is the
\* message of the failure's category, the generic one for any other failure.
C21_MicFailureBackToIdle ==
  [][\A i \in Recs, name \in MicErrorNames : C21_DeniedStep(i, name)]_vars
----------------------------------------------------------------------------
(* The chat history of the staged script, checked under SpecStaged *)

\* the turn of send i ended in its catch
StagedFailed(i) == sends[i].pc = "done" /\ sends[i].error # NoMsg

\* C22: a turn that ends in failure has appended nothing to the client's chat
\* history, neither its user turn nor its assistant turn, whichever stage failed.
C22_FailedTurnAppendsNothing ==
  \A i \in Recs :
    StagedFailed(i) => \A k \in 1..Len(chatHistory) : chatHistory[k].turn # i

\* C23: with several turns in flight and their responses arriving in any
\* order, the user entry of a turn is immediately followed by its own assistant
\* entry: no entry of another turn stands between them.
C23_TurnEntriesAdjacent ==
  \A k, m \in 1..Len(chatHistory) :
    ( /\ k < m
      /\ chatHistory[k].turn = chatHistory[m].turn
      /\ chatHistory[k].role = "user"
      /\ chatHistory[m].role = "assistant" ) => m = k + 1

\* the answers whose transcript or reply is empty or not a string
EmptyAnswers ==
  {r \in StagedAnswers(StagedValues) : StagedError(r) = NoMsg /\ StringOrEmpty(r.value) = <<>>}

\* the requests send i has made to one endpoint
PostedTo(i, url) == {k \in 1..Len(sends[i].posted) : sends[i].posted[k].url = url}

C25_Requests ==
  \A i \in Recs :
    /\ \A k \in PostedTo(i, "/api/llm") : sends[i].posted[k].transcript # <<>>
    /\ \A k \in PostedTo(i, "/api/tts") : sends[i].posted[k].text # <<>>

C25_Step(i, r) ==
  /\ (sends[i].pc = "transcribing" /\ StagedTranscribeSettles(i, r)) =>
       /\ sends'[i].pc = "done"
       /\ status' = StatusMsg("Transcription was empty.")
  /\ (sends[i].pc = "thinking" /\ StagedLlmSettles(i, r)) =>
       /\ sends'[i].pc = "done"
       /\ status' = StatusMsg("LLM response was empty.")

\* C25: the staged script never requests the completion with an empty
\* transcript nor the synthesis with an empty reply: an empty or non-string
\* transcript ends the turn before /api/llm is requested, an empty or non-string
\* reply ends it before /api/tts is requested, each with its own status message.
C25_NoEmptyStageInput ==
  [][C25_Requests' /\ \A i \in Recs, r \in EmptyAnswers : C25_Step(i, r)]_vars

\* one turn stopped at an empty transcript, another at an empty reply
C25_Witness ==
  \E i, j \in Recs :
    /\ sends[i].pc = "done" /\ sends[i].error = EmptyTranscriptionMsg
    /\ sends[j].pc = "done" /\ sends[j].error = EmptyLlmResponseMsg
----------------------------------------------------------------------------
(* The record button after the encoder stopped by itself, checked under SpecClient *)

\* isRecording is true while no encoder records, no stop is awaited and no
\* microphone request is pending
Stuck ==
  /\ isRecording
  /\ \A i \in Recs : /\ sessions[i].encoder # "recording"
                     /\ ~sessions[i].stopWaiter
                     /\ sessions[i].start # "awaitMedia"

\* C24: the recorder is never stuck with isRecording true where every click is
\* a no-op; from every state, also after the encoder became inactive on its
\* own, a click on the record button gets the recorder back to idle.
C24_ClickAlwaysGetsBackToIdle == ~Stuck
====
